---- MODULE Spec2Model ----
(***************************************************************************)
(* Local Food Wastage Management System (src/app.py, src/create_db.py,     *)
(* src/setup_database.py).                                                 *)
(*                                                                         *)
(* The store is the SQLite file food_wastage.db with its four tables; the  *)
(* loader is load_data_from_db under st.cache_data(ttl="1h"); the reports  *)
(* are the Key Insights computations over the loaded dataframes; the       *)
(* gateway is the insert / update / delete code of the two form pages.     *)
(* One Streamlit script run is a Load step (app.py line 50) followed by    *)
(* the step of the selected page.                                          *)
(*                                                                         *)
(* Spec is one session over the setup data sets.  SpecFail adds commits    *)
(* that fail, SpecReports runs the reports over larger data sets on        *)
(* several days, SpecConc adds a second session whose load takes time.     *)
(***************************************************************************)
EXTENDS Integers, Sequences, FiniteSets, TLC

(***************************************************************************)
(* Bounds of the model.                                                    *)
(***************************************************************************)
\* listings added through the form since the database was set up
MaxInserts == 1

\* st.cache_data(ttl="1h"): one hour, counted in clock ticks of half an hour
TTL == 2

\* the longest a load_data_from_db call runs, in clock ticks
MaxLoadTicks == 2

\* days that pass while the app is up
MaxDays == 3

(***************************************************************************)
(* SQLite cells.  A cell has a storage class: INTEGER, TEXT or NULL.  Text *)
(* is a sequence of one-character strings.                                 *)
(***************************************************************************)
I(n) == [t |-> "int", n |-> n, s |-> <<>>]
T(s) == [t |-> "text", n |-> 0, s |-> s]
NULL == [t |-> "null", n |-> 0, s |-> <<>>]

Digit == {"0", "1", "2", "3", "4", "5", "6", "7", "8", "9"}

DigitVal(c) ==
  CASE c = "0" -> 0 [] c = "1" -> 1 [] c = "2" -> 2 [] c = "3" -> 3
    [] c = "4" -> 4 [] c = "5" -> 5 [] c = "6" -> 6 [] c = "7" -> 7
    [] c = "8" -> 8 [] c = "9" -> 9

DigitChar(d) ==
  CASE d = 0 -> "0" [] d = 1 -> "1" [] d = 2 -> "2" [] d = 3 -> "3"
    [] d = 4 -> "4" [] d = 5 -> "5" [] d = 6 -> "6" [] d = 7 -> "7"
    [] d = 8 -> "8" [] d = 9 -> "9"

AllDigits(s) == Len(s) > 0 /\ \A i \in 1..Len(s) : s[i] \in Digit

RECURSIVE ParseDigits(_)
ParseDigits(s) ==
  IF s = <<>> THEN 0
  ELSE ParseDigits(SubSeq(s, 1, Len(s) - 1)) * 10 + DigitVal(s[Len(s)])

RECURSIVE NatToText(_)
NatToText(n) ==
  IF n < 10 THEN <<DigitChar(n)>>
  ELSE NatToText(n \div 10) \o <<DigitChar(n % 10)>>

\* the text SQLite gives an integer when a TEXT cell is compared with it
IntToText(n) == IF n < 0 THEN <<"-">> \o NatToText(0 - n) ELSE NatToText(n)

\* two-digit and four-digit zero padded fields of str(datetime.date)
Pad2(n) == <<DigitChar(n \div 10), DigitChar(n % 10)>>
Pad4(n) == <<DigitChar(n \div 1000), DigitChar((n \div 100) % 10),
             DigitChar((n \div 10) % 10), DigitChar(n % 10)>>

(***************************************************************************)
(* pd.to_numeric(errors='coerce') followed by .fillna(0).astype(int).      *)
(***************************************************************************)
Num(v) == [k |-> "num", v |-> v]
NaN == [k |-> "nan", v |-> 0]
Inf == [k |-> "inf", v |-> 0]

InfTexts == {<<"i", "n", "f">>, <<"-", "i", "n", "f">>}

to_numeric(cell) ==
  CASE cell.t = "int" -> Num(cell.n)
    [] cell.t = "null" -> NaN
    [] cell.t = "text" ->
         IF AllDigits(cell.s) THEN Num(ParseDigits(cell.s))
         ELSE IF Len(cell.s) > 1 /\ cell.s[1] = "-" /\ AllDigits(Tail(cell.s))
              THEN Num(0 - ParseDigits(Tail(cell.s)))
         ELSE IF cell.s \in InfTexts THEN Inf
         ELSE NaN

fillna0(x) == IF x.k = "nan" THEN Num(0) ELSE x

\* astype(int) raises on a non-finite value
astype_int_raises(x) == x.k = "inf"

coerce_int(cell) == fillna0(to_numeric(cell)).v

coerce_raises(cell) == astype_int_raises(fillna0(to_numeric(cell)))

(***************************************************************************)
(* Calendar dates: str(datetime.date), strftime and pd.to_datetime.        *)
(***************************************************************************)
Date(y, m, d) == [nat |-> FALSE, y |-> y, m |-> m, d |-> d, sec |-> 0]
DateTime(y, m, d, sec) == [nat |-> FALSE, y |-> y, m |-> m, d |-> d, sec |-> sec]
NaT == [nat |-> TRUE, y |-> 0, m |-> 0, d |-> 0, sec |-> 0]

IsLeap(y) == (y % 4 = 0 /\ y % 100 # 0) \/ y % 400 = 0

DaysInMonth(y, m) ==
  IF m = 2 THEN (IF IsLeap(y) THEN 29 ELSE 28)
  ELSE IF m \in {4, 6, 9, 11} THEN 30 ELSE 31

\* str(expiry_date): ISO format YYYY-MM-DD
str_date(dt) == Pad4(dt.y) \o <<"-">> \o Pad2(dt.m) \o <<"-">> \o Pad2(dt.d)

\* strftime('%Y-%m-%d %H:%M:%S')
strftime_ts(dt) ==
  str_date(dt) \o <<" ">> \o Pad2(dt.sec \div 3600) \o <<":">>
    \o Pad2((dt.sec \div 60) % 60) \o <<":">> \o Pad2(dt.sec % 60)

DatePartOk(s) ==
  /\ Len(s) >= 10
  /\ \A i \in {1, 2, 3, 4, 6, 7, 9, 10} : s[i] \in Digit
  /\ s[5] = "-" /\ s[8] = "-"
  /\ LET y == ParseDigits(SubSeq(s, 1, 4))
         m == ParseDigits(SubSeq(s, 6, 7))
         d == ParseDigits(SubSeq(s, 9, 10))
     IN /\ y >= 1678 /\ y <= 2261   \* range of a pandas Timestamp
        /\ m >= 1 /\ m <= 12
        /\ d >= 1 /\ d <= DaysInMonth(y, m)

TimePartOk(s) ==
  /\ Len(s) = 19
  /\ s[11] = " " /\ s[14] = ":" /\ s[17] = ":"
  /\ \A i \in {12, 13, 15, 16, 18, 19} : s[i] \in Digit
  /\ ParseDigits(SubSeq(s, 12, 13)) < 24
  /\ ParseDigits(SubSeq(s, 15, 16)) < 60
  /\ ParseDigits(SubSeq(s, 18, 19)) < 60

ParseDateText(s) ==
  IF DatePartOk(s) /\ (Len(s) = 10 \/ TimePartOk(s))
  THEN DateTime(ParseDigits(SubSeq(s, 1, 4)),
                ParseDigits(SubSeq(s, 6, 7)),
                ParseDigits(SubSeq(s, 9, 10)),
                IF Len(s) = 10 THEN 0
                ELSE ParseDigits(SubSeq(s, 12, 13)) * 3600
                     + ParseDigits(SubSeq(s, 15, 16)) * 60
                     + ParseDigits(SubSeq(s, 18, 19)))
  ELSE NaT

\* pd.to_datetime(errors='coerce') of one cell
to_datetime(cell) ==
  CASE cell.t = "text" -> ParseDateText(cell.s)
    [] cell.t = "null" -> NaT
    [] cell.t = "int" -> Date(1970, 1, 1)

RECURSIVE DaysBeforeMonth(_, _)
DaysBeforeMonth(y, m) ==
  IF m = 1 THEN 0 ELSE DaysBeforeMonth(y, m - 1) + DaysInMonth(y, m - 1)

\* proleptic Gregorian ordinal, day 1 is 0001-01-01
Ordinal(dt) ==
  LET p == dt.y - 1
  IN p * 365 + (p \div 4) - (p \div 100) + (p \div 400)
     + DaysBeforeMonth(dt.y, dt.m) + dt.d

DayNames ==
  <<"Monday", "Tuesday", "Wednesday", "Thursday", "Friday", "Saturday", "Sunday">>

\* Series.dt.day_name()
day_name(dt) == DayNames[((Ordinal(dt) + 6) % 7) + 1]

\* date + datetime.timedelta(days=1)
next_day(dt) ==
  IF dt.d < DaysInMonth(dt.y, dt.m) THEN Date(dt.y, dt.m, dt.d + 1)
  ELSE IF dt.m < 12 THEN Date(dt.y, dt.m + 1, 1)
  ELSE Date(dt.y + 1, 1, 1)

\* date + datetime.timedelta(days=n)
RECURSIVE add_days(_, _)
add_days(dt, n) == IF n = 0 THEN dt ELSE add_days(next_day(dt), n - 1)

\* d1 <= d2 on datetime.date values
date_le(d1, d2) ==
  \/ d1.y < d2.y
  \/ d1.y = d2.y /\ d1.m < d2.m
  \/ d1.y = d2.y /\ d1.m = d2.m /\ d1.d <= d2.d

(***************************************************************************)
(* Rows of the four tables as stored (cells) and the enumerations of the   *)
(* forms.                                                                  *)
(***************************************************************************)
FoodTypes == <<"Vegetarian", "Non-Vegetarian", "Vegan">>
MealTypes == <<"Breakfast", "Lunch", "Dinner", "Snacks">>

\* a NULL in a text column, None in the dataframe
None == "None"

SeqRange(q) == {q[i] : i \in 1..Len(q)}

MaxOf(S) == CHOOSE x \in S : \A y \in S : y <= x
MinOf(S) == CHOOSE x \in S : \A y \in S : x <= y

FoodRow(id, name, qty, exp, pid, ptype, loc, ftype, mtype) ==
  [Food_ID |-> id, Food_Name |-> name, Quantity |-> qty, Expiry_Date |-> exp,
   Provider_ID |-> pid, Provider_Type |-> ptype, Location |-> loc,
   Food_Type |-> ftype, Meal_Type |-> mtype]

ProviderRow(pid, name, type, city) ==
  [Provider_ID |-> pid, Name |-> name, Type |-> type, City |-> city]

ReceiverRow(rid, name, type, city) ==
  [Receiver_ID |-> rid, Name |-> name, Type |-> type, City |-> city]

ClaimRow(cid, fid, rid, status, ts) ==
  [Claim_ID |-> cid, Food_ID |-> fid, Receiver_ID |-> rid, Status |-> status,
   Timestamp |-> ts]

Tables(f, p, r, c) ==
  [food_listings |-> f, providers |-> p, receivers |-> r, claims |-> c]

(***************************************************************************)
(* The CSV data sets the setup scripts load (to_sql, if_exists='replace').  *)
(***************************************************************************)
Alpha == ProviderRow(I(1), "Alpha", "Restaurant", "Pune")
Beta == ProviderRow(I(2), "Beta", "Grocery", "Delhi")
Asha == ReceiverRow(I(1), "Asha", "NGO", "Pune")
Ravi == ReceiverRow(I(2), "Ravi", "Shelter", "Delhi")

\* well-formed data: provider 1 has one claimed and one unclaimed listing
SeedClean ==
  Tables(<<FoodRow(I(1), "Bread", I(5), T(str_date(Date(2025, 1, 10))), I(1),
                   "Restaurant", "Pune", "Vegetarian", "Breakfast"),
           FoodRow(I(2), "Rice", I(3), T(str_date(Date(2025, 1, 8))), I(1),
                   "Restaurant", "Pune", "Vegan", "Lunch")>>,
         <<Alpha, Beta>>,
         <<Asha, Ravi>>,
         <<ClaimRow(I(1), I(1), I(1), "Completed",
                    T(strftime_ts(DateTime(2025, 1, 1, 36000))))>>)

\* providers and receivers only
SeedFresh == Tables(<<>>, <<Alpha, Beta>>, <<Asha>>, <<>>)

\* header-only CSV files
SeedEmpty == Tables(<<>>, <<>>, <<>>, <<>>)

\* malformed cells: text quantities, a listing of an unknown provider, a
\* claim of an unknown listing, unparseable dates
SeedDirty ==
  Tables(<<FoodRow(I(1), "Bread", T(<<"5">>), T(str_date(Date(2025, 1, 10))),
                   I(1), "Restaurant", "Pune", "Vegetarian", "Breakfast"),
           FoodRow(I(2), "Rice", T(<<"a", "b", "c">>), T(<<"s", "o", "o", "n">>),
                   I(9), "Grocery", "Delhi", "Vegan", "Lunch"),
           FoodRow(I(4), "Curry", T(<<"-", "1">>), NULL, I(1), "Restaurant",
                   "Pune", "Veg", "Lunch")>>,
         <<Alpha>>,
         <<Asha>>,
         <<ClaimRow(I(1), I(2), I(1), "Pending", T(<<"n", "/", "a">>)),
           ClaimRow(I(2), I(5), I(1), "Completed",
                    T(str_date(Date(2025, 1, 6)))),
           ClaimRow(I(3), I(2), I(1), None, NULL)>>)

\* largest Food_ID 7, not the last row; two provider rows with Provider_ID 1
SeedSeven ==
  Tables(<<FoodRow(I(7), "Soup", I(4), T(str_date(Date(2025, 1, 8))), I(1),
                   "Restaurant", "Pune", "Vegan", "Dinner"),
           FoodRow(I(3), "Bread", I(2), T(str_date(Date(2025, 2, 29))), I(2),
                   "Grocery", "Delhi", "Vegetarian", "Snacks")>>,
         <<Alpha, Beta, ProviderRow(I(1), "Gamma", None, "Pune")>>,
         <<Asha>>,
         <<ClaimRow(I(1), I(3), I(1), "Cancelled",
                    T(strftime_ts(DateTime(2025, 1, 8, 0)))),
           ClaimRow(I(2), I(3), I(1), "Completed",
                    T(strftime_ts(DateTime(2025, 1, 1, 86399))))>>)

\* a quantity cell holding the text inf
SeedInf ==
  Tables(<<FoodRow(I(1), "Bread", T(<<"i", "n", "f">>),
                   T(str_date(Date(2025, 1, 10))), I(1),
                   "Restaurant", "Pune", "Vegetarian", "Breakfast")>>,
         <<Alpha>>, <<Asha>>, <<>>)

\* a CSV whose Food_ID columns hold text
SeedTextIds ==
  Tables(<<FoodRow(T(<<"1">>), "Bread", I(5), T(str_date(Date(2025, 1, 10))),
                   I(1), "Restaurant", "Pune", "Vegetarian", "Breakfast"),
           FoodRow(T(<<"x", "7">>), "Rice", I(3), T(str_date(Date(2025, 1, 8))),
                   I(1), "Restaurant", "Pune", "Vegan", "Lunch")>>,
         <<Alpha>>, <<Asha>>,
         <<ClaimRow(I(1), T(<<"1">>), I(1), "Pending",
                    T(strftime_ts(DateTime(2025, 1, 7, 43200))))>>)

Seeds ==
  {SeedClean, SeedFresh, SeedEmpty, SeedDirty, SeedSeven, SeedInf, SeedTextIds}

\* Data sets for the reports: six listings by one provider.  Row i expires
\* on ReportExpiry[i]; the names and the quantities vary.
ReportExpiry ==
  <<T(str_date(Date(2025, 1, 29))), T(str_date(Date(2025, 1, 30))),
    T(str_date(Date(2025, 1, 31))), T(str_date(Date(2025, 2, 1))),
    T(str_date(Date(2025, 2, 6))), NULL>>

ReportNames ==
  {<<"Rice", "Naan", "Dal", "Curry", "Bread", "Apple">>,
   <<"Rice", "Rice", "Dal", "Curry", "Bread", "Apple">>,
   <<"Rice", "Naan", "Dal", "Curry", "Bread", None>>,
   <<"Soup", "Naan", "Dal", "Soup", "Bread", "Soup">>}

ReportQuantities == [1..6 -> {1, 10}] \cup {<<10, 10, 5, 3, 1, 2>>}

ListingSeed(names, qty) ==
  Tables([i \in 1..6 |->
            FoodRow(I(i), names[i], I(qty[i]), ReportExpiry[i], I(1),
                    "Restaurant", "Pune", "Vegan", "Lunch")],
         <<Alpha>>, <<Asha>>, << >>)

ListingSeeds == {ListingSeed(n, q) : n \in ReportNames, q \in ReportQuantities}

\* Data sets for report 4: n receivers, receiver k with a claim on listing
\* ((k - 1) % 3) + 1; receiver 1 with a second claim; a claim on a Food_ID
\* that is no listing and a claim by a Receiver_ID that is no receiver
ReceiverNames ==
  <<"Asha", "Ravi", "Bina", "Chen", "Dev", "Esha", "Farid", "Gita", "Hari",
    "Indu", "Jai">>

ReceiverSeed(n, qty) ==
  Tables([i \in 1..3 |->
            FoodRow(I(i), "Bread", I(qty[i]), ReportExpiry[i], I(1),
                    "Restaurant", "Pune", "Vegan", "Lunch")],
         <<Alpha>>,
         [k \in 1..n |-> ReceiverRow(I(k), ReceiverNames[k], "NGO", "Pune")],
         [k \in 1..n |->
            ClaimRow(I(k), I(((k - 1) % 3) + 1), I(k), "Completed",
                     T(strftime_ts(Date(2025, 1, 6))))]
           \o <<ClaimRow(I(n + 1), I(3), I(1), "Pending",
                         T(strftime_ts(Date(2025, 1, 7)))),
                ClaimRow(I(n + 2), I(9), I(2), "Pending",
                         T(strftime_ts(Date(2025, 1, 7)))),
                ClaimRow(I(n + 3), I(1), I(12), "Pending",
                         T(strftime_ts(Date(2025, 1, 7))))>>)

ReceiverSeeds ==
  {ReceiverSeed(n, q) : n \in {2, 10, 11}, q \in [1..3 -> {3, 8}]}

ReportSeeds == ListingSeeds \cup ReceiverSeeds

(***************************************************************************)
(* The loader: the four SELECT * queries and the coercions.                *)
(***************************************************************************)
load_food(row) ==
  [Food_ID |-> coerce_int(row.Food_ID), Food_Name |-> row.Food_Name,
   Quantity |-> coerce_int(row.Quantity),
   Expiry_Date |-> to_datetime(row.Expiry_Date),
   Provider_ID |-> coerce_int(row.Provider_ID),
   Provider_Type |-> row.Provider_Type, Location |-> row.Location,
   Food_Type |-> row.Food_Type, Meal_Type |-> row.Meal_Type]

load_provider(row) ==
  [Provider_ID |-> coerce_int(row.Provider_ID), Name |-> row.Name,
   Type |-> row.Type, City |-> row.City]

load_receiver(row) ==
  [Receiver_ID |-> coerce_int(row.Receiver_ID), Name |-> row.Name,
   Type |-> row.Type, City |-> row.City]

load_claim(row) ==
  [Claim_ID |-> row.Claim_ID, Food_ID |-> coerce_int(row.Food_ID),
   Receiver_ID |-> coerce_int(row.Receiver_ID), Status |-> row.Status,
   Timestamp |-> to_datetime(row.Timestamp)]

\* some astype(int) of lines 34-41 raises
load_raises(db) ==
  \/ \E r \in SeqRange(db.food_listings) :
       coerce_raises(r.Food_ID) \/ coerce_raises(r.Provider_ID)
         \/ coerce_raises(r.Quantity)
  \/ \E r \in SeqRange(db.providers) : coerce_raises(r.Provider_ID)
  \/ \E r \in SeqRange(db.receivers) : coerce_raises(r.Receiver_ID)
  \/ \E r \in SeqRange(db.claims) :
       coerce_raises(r.Food_ID) \/ coerce_raises(r.Receiver_ID)

\* the tuple of dataframes load_data_from_db returns
load_data_from_db(db) ==
  [df_food_listings |-> [i \in 1..Len(db.food_listings) |-> load_food(db.food_listings[i])],
   df_providers |-> [i \in 1..Len(db.providers) |-> load_provider(db.providers[i])],
   df_receivers |-> [i \in 1..Len(db.receivers) |-> load_receiver(db.receivers[i])],
   df_claims |-> [i \in 1..Len(db.claims) |-> load_claim(db.claims[i])]]

NoData ==
  [df_food_listings |-> <<>>, df_providers |-> <<>>, df_receivers |-> <<>>,
   df_claims |-> <<>>]

(***************************************************************************)
(* The Key Insights reports, as functions of the loaded dataframes.        *)
(***************************************************************************)
RECURSIVE SumSeq(_)
SumSeq(q) == IF q = <<>> THEN 0 ELSE q[1] + SumSeq(Tail(q))

RECURSIVE SumOver(_, _)
SumOver(f, S) ==
  IF S = {} THEN 0
  ELSE LET x == CHOOSE y \in S : TRUE IN f[x] + SumOver(f, S \ {x})

RECURSIVE SortedSeq(_)
SortedSeq(S) ==
  IF S = {} THEN <<>> ELSE <<MinOf(S)>> \o SortedSeq(S \ {MinOf(S)})

\* the row pairs of an inner merge, in the order of the left frame and then
\* of the right frame
IndexPairs(n, m) ==
  [k \in 1..(n * m) |-> <<((k - 1) \div m) + 1, ((k - 1) % m) + 1>>]

\* left.merge(right, on='Provider_ID')
merge_on_provider_id(left, right) ==
  SelectSeq(IndexPairs(Len(left), Len(right)),
            LAMBDA pr : left[pr[1]].Provider_ID = right[pr[2]].Provider_ID)

\* DataFrame.drop_duplicates(): the first occurrence of every row
drop_duplicates(rows) ==
  LET keep == SelectSeq([k \in 1..Len(rows) |-> k],
                        LAMBDA k : \A j \in 1..(k - 1) : rows[j] # rows[k])
  IN [i \in 1..Len(keep) |-> rows[keep[i]]]

\* report 5: df_food_listings['Quantity'].sum()
total_quantity_available(snap) ==
  SumSeq([i \in 1..Len(snap.df_food_listings) |-> snap.df_food_listings[i].Quantity])

\* report 2: the merge of listings and providers
provider_type_contribution(snap) ==
  LET pairs == merge_on_provider_id(snap.df_food_listings, snap.df_providers)
  IN [k \in 1..Len(pairs) |->
        [Quantity |-> snap.df_food_listings[pairs[k][1]].Quantity,
         Type |-> snap.df_providers[pairs[k][2]].Type]]

top_provider_types_mean(snap) ==
  LET rows == provider_type_contribution(snap)
      types == {rows[k].Type : k \in 1..Len(rows)} \ {None}
  IN [t \in types |->
        SumSeq([k \in 1..Len(rows) |->
                  IF rows[k].Type = t THEN rows[k].Quantity ELSE 0])
          \div Cardinality({k \in 1..Len(rows) : rows[k].Type = t})]

\* report 2: groupby('Type')['Quantity'].sum(); a null key forms no group
top_provider_types(snap) ==
  LET rows == provider_type_contribution(snap)
      types == {rows[k].Type : k \in 1..Len(rows)} \ {None}
  IN [t \in types |->
        SumSeq([k \in 1..Len(rows) |->
                  IF rows[k].Type = t THEN rows[k].Quantity ELSE 0])]

\* report 13: groupby('Provider_ID')['Quantity'].sum().reset_index()
quantity_by_provider_id(snap) ==
  LET df == snap.df_food_listings
      ids == SortedSeq({df[i].Provider_ID : i \in 1..Len(df)})
  IN [g \in 1..Len(ids) |->
        [Provider_ID |-> ids[g],
         Quantity |-> SumSeq([i \in 1..Len(df) |->
                        IF df[i].Provider_ID = ids[g] THEN df[i].Quantity ELSE 0])]]

\* report 13: the grouped totals merged with the providers
provider_donated_qty(snap) ==
  LET grouped == quantity_by_provider_id(snap)
      pairs == merge_on_provider_id(grouped, snap.df_providers)
  IN [k \in 1..Len(pairs) |->
        [Provider_ID |-> grouped[pairs[k][1]].Provider_ID,
         Quantity |-> grouped[pairs[k][1]].Quantity,
         Name |-> snap.df_providers[pairs[k][2]].Name,
         Type |-> snap.df_providers[pairs[k][2]].Type]]

\* report 15: df_claims['Food_ID'].unique()
claimed_food_ids(snap) ==
  {snap.df_claims[i].Food_ID : i \in 1..Len(snap.df_claims)}

\* report 15: the listings whose Food_ID is not claimed
unclaimed_listings(snap) ==
  SelectSeq(snap.df_food_listings, LAMBDA r : r.Food_ID \notin claimed_food_ids(snap))

\* report 15: the providers of the unclaimed listings, without duplicates
unique_providers_with_unclaimed(snap) ==
  LET left == unclaimed_listings(snap)
      pairs == merge_on_provider_id(left, snap.df_providers)
  IN drop_duplicates([k \in 1..Len(pairs) |-> snap.df_providers[pairs[k][2]]])

\* report 18: dropna(subset=['Timestamp'])
df_claims_cleaned(snap) ==
  SelectSeq(snap.df_claims, LAMBDA r : ~r.Timestamp.nat)

\* Series.value_counts()
value_counts(col) ==
  [v \in SeqRange(col) |-> Cardinality({i \in 1..Len(col) : col[i] = v})]

\* Series.reindex(index, fill_value=fill)
reindex(counts, index, fill) ==
  [k \in 1..Len(index) |->
     [day |-> index[k],
      count |-> IF index[k] \in DOMAIN counts THEN counts[index[k]] ELSE fill]]

SundayFirst ==
  <<"Sunday", "Monday", "Tuesday", "Wednesday", "Thursday", "Friday", "Saturday">>

claims_by_day_sunday_first(snap) ==
  LET cleaned == df_claims_cleaned(snap)
      Day_of_Week == [i \in 1..Len(cleaned) |-> day_name(cleaned[i].Timestamp)]
  IN reindex(value_counts(Day_of_Week), SundayFirst, 0)

\* report 18: claims by day of the week
claims_by_day(snap) ==
  LET cleaned == df_claims_cleaned(snap)
      Day_of_Week == [i \in 1..Len(cleaned) |-> day_name(cleaned[i].Timestamp)]
  IN reindex(value_counts(Day_of_Week), DayNames, 0)

\* Series.dropna(), which value_counts applies to its input
dropna(col) == SelectSeq(col, LAMBDA v : v # None)

\* a quotient num / den of two integers, kept exact
Ratio(num, den) == [num |-> num, den |-> den]

claim_status_percentage_of_rows(snap) ==
  LET Status == [i \in 1..Len(snap.df_claims) |-> snap.df_claims[i].Status]
      counts == value_counts(dropna(Status))
  IN [v \in DOMAIN counts |-> Ratio(counts[v] * 100, Len(Status))]

\* report 10: df_claims['Status'].value_counts(normalize=True) * 100, each
\* count divided by the sum of the counts
claim_status_percentage(snap) ==
  LET Status == [i \in 1..Len(snap.df_claims) |-> snap.df_claims[i].Status]
      counts == value_counts(dropna(Status))
  IN [v \in DOMAIN counts |->
        Ratio(counts[v] * 100, SumOver(counts, DOMAIN counts))]

\* left.merge(right, on='Food_ID')
merge_on_food_id(left, right) ==
  SelectSeq(IndexPairs(Len(left), Len(right)),
            LAMBDA pr : left[pr[1]].Food_ID = right[pr[2]].Food_ID)

\* report 6: df_food_listings['Location'].value_counts()
city_listings_count(snap) ==
  value_counts(dropna([i \in 1..Len(snap.df_food_listings) |->
                         snap.df_food_listings[i].Location]))

\* report 6 takes .iloc[0] of the sorted location counts: IndexError when
\* there is no row to take
report6_raises(snap) == DOMAIN city_listings_count(snap) = {}

\* report 6: the count of the first row of the counts sorted downwards
city_with_most_listings(snap) ==
  LET counts == city_listings_count(snap)
  IN MaxOf({counts[v] : v \in DOMAIN counts})

\* how report 6 ends: it has no branch for an empty table
report6_outcome(snap) ==
  IF report6_raises(snap) THEN "IndexError" ELSE "top row"

\* report 9: the Completed claims merged with the listings
successful_claims_with_provider(snap) ==
  LET successful_claims ==
        SelectSeq(snap.df_claims, LAMBDA c : c.Status = "Completed")
      pairs == merge_on_food_id(successful_claims, snap.df_food_listings)
  IN [k \in 1..Len(pairs) |->
        [Provider_ID |-> snap.df_food_listings[pairs[k][2]].Provider_ID]]

\* report 9: the claim count of every provider id, merged with the providers
provider_successful_claims(snap) ==
  LET joined == successful_claims_with_provider(snap)
      counts == value_counts([k \in 1..Len(joined) |-> joined[k].Provider_ID])
      ids == SortedSeq(DOMAIN counts)
      grouped == [k \in 1..Len(ids) |->
                    [Provider_ID |-> ids[k],
                     Successful_Claims_Count |-> counts[ids[k]]]]
      pairs == merge_on_provider_id(grouped, snap.df_providers)
  IN [k \in 1..Len(pairs) |->
        [Provider_ID |-> grouped[pairs[k][1]].Provider_ID,
         Successful_Claims_Count |-> grouped[pairs[k][1]].Successful_Claims_Count,
         Name |-> snap.df_providers[pairs[k][2]].Name]]

\* report 9: the count of the row head(1) keeps after the sort downwards
top_provider_successful_claims(snap) ==
  LET rows == provider_successful_claims(snap)
  IN MaxOf({rows[k].Successful_Claims_Count : k \in 1..Len(rows)})

\* how report 9 ends: the else branch writes "No successful claims found yet."
report9_outcome(snap) ==
  IF Len(provider_successful_claims(snap)) = 0 THEN "no data" ELSE "top row"

\* the food names of the model in the order Python compares strings
FoodNames ==
  <<"Apple", "Bread", "Curry", "Dal", "Naan", "Rice", "Soup">>

\* the positions of a column ordered by value downwards, equal values in
\* their original order
order_descending(vals) ==
  [k \in 1..Len(vals) |->
     CHOOSE i \in 1..Len(vals) :
       Cardinality({j \in 1..Len(vals) :
          vals[j] > vals[i] \/ (vals[j] = vals[i] /\ j < i)}) = k - 1]

\* t1 < t2 on Timestamp values
timestamp_lt(t1, t2) ==
  \/ Ordinal(t1) < Ordinal(t2)
  \/ Ordinal(t1) = Ordinal(t2) /\ t1.sec < t2.sec

\* rows.sort_values(by='Expiry_Date', ascending=True), equal dates in their
\* original order
sort_values_by_expiry_date(rows) ==
  LET order ==
        [k \in 1..Len(rows) |->
           CHOOSE i \in 1..Len(rows) :
             Cardinality({j \in 1..Len(rows) :
                \/ timestamp_lt(rows[j].Expiry_Date, rows[i].Expiry_Date)
                \/ rows[j].Expiry_Date = rows[i].Expiry_Date /\ j < i}) = k - 1]
  IN [k \in 1..Len(rows) |-> rows[order[k]]]

\* DataFrame.head(n)
head(rows, n) == SubSeq(rows, 1, IF Len(rows) < n THEN Len(rows) ELSE n)

\* report 17: groupby('Food_Name')['Quantity'].sum(), keys sorted, null
\* names left out
quantity_by_food_name(snap) ==
  LET df == snap.df_food_listings
      names == {df[i].Food_Name : i \in 1..Len(df)} \ {None}
      keys == SelectSeq(FoodNames, LAMBDA n : n \in names)
  IN [g \in 1..Len(keys) |->
        [Food_Name |-> keys[g],
         Quantity |-> SumSeq([i \in 1..Len(df) |->
                        IF df[i].Food_Name = keys[g] THEN df[i].Quantity ELSE 0])]]

top_5_food_items_qty_head(snap) == head(quantity_by_food_name(snap), 5)

\* report 17: .nlargest(5), keep='first'
top_5_food_items_qty(snap) ==
  LET grouped == quantity_by_food_name(snap)
      order == order_descending([g \in 1..Len(grouped) |-> grouped[g].Quantity])
  IN head([k \in 1..Len(order) |-> grouped[order[k]]], 5)

\* report 21: the listings with today <= Expiry_Date.dt.date <= today + days,
\* sorted by Expiry_Date; a comparison with NaT is False
expiring_custom_df(snap, days_input, date_today) ==
  LET custom_expiry_date == add_days(date_today, days_input)
      today_date_for_filter == date_today
      kept == SelectSeq(snap.df_food_listings,
                LAMBDA r : /\ ~r.Expiry_Date.nat
                           /\ date_le(today_date_for_filter, r.Expiry_Date)
                           /\ date_le(r.Expiry_Date, custom_expiry_date))
  IN sort_values_by_expiry_date(kept)

\* left.merge(right, on='Receiver_ID')
merge_on_receiver_id(left, right) ==
  SelectSeq(IndexPairs(Len(left), Len(right)),
            LAMBDA pr : left[pr[1]].Receiver_ID = right[pr[2]].Receiver_ID)

\* report 4: the claims merged with the Quantity of their listing
claims_with_food_qty(snap) ==
  LET pairs == merge_on_food_id(snap.df_claims, snap.df_food_listings)
  IN [k \in 1..Len(pairs) |->
        [Receiver_ID |-> snap.df_claims[pairs[k][1]].Receiver_ID,
         Quantity |-> snap.df_food_listings[pairs[k][2]].Quantity]]

\* report 4: groupby('Receiver_ID')['Quantity'].sum().reset_index()
quantity_by_receiver_id(snap) ==
  LET df == claims_with_food_qty(snap)
      ids == SortedSeq({df[k].Receiver_ID : k \in 1..Len(df)})
  IN [g \in 1..Len(ids) |->
        [Receiver_ID |-> ids[g],
         Quantity |-> SumSeq([k \in 1..Len(df) |->
                        IF df[k].Receiver_ID = ids[g] THEN df[k].Quantity ELSE 0])]]

\* report 4: the totals merged with the receivers
receiver_totals_named(snap) ==
  LET grouped == quantity_by_receiver_id(snap)
      pairs == merge_on_receiver_id(grouped, snap.df_receivers)
  IN [k \in 1..Len(pairs) |->
        [Receiver_ID |-> grouped[pairs[k][1]].Receiver_ID,
         Quantity |-> grouped[pairs[k][1]].Quantity,
         Name |-> snap.df_receivers[pairs[k][2]].Name,
         Type |-> snap.df_receivers[pairs[k][2]].Type]]

receiver_total_claimed_first_rows(snap) == head(receiver_totals_named(snap), 10)

\* report 4: .sort_values(by='Quantity', ascending=False).head(10)
receiver_total_claimed(snap) ==
  LET rows == receiver_totals_named(snap)
      order == order_descending([k \in 1..Len(rows) |-> rows[k].Quantity])
  IN head([k \in 1..Len(order) |-> rows[order[k]]], 10)

(***************************************************************************)
(* SQL statements of the gateway.                                          *)
(***************************************************************************)
\* WHERE Food_ID = ? with an integer parameter
SqlEq(cell, n) ==
  \/ cell.t = "int" /\ cell.n = n
  \/ cell.t = "text" /\ cell.s = IntToText(n)

select_count_food_id(db) == I(Len(db.food_listings))
\* SELECT MAX(Food_ID) FROM food_listings: NULL for no rows, text above numbers
select_max_food_id(db) ==
  LET cells == {r.Food_ID : r \in SeqRange(db.food_listings)}
      texts == {c \in cells : c.t = "text"}
      ints == {c.n : c \in {x \in cells : x.t = "int"}}
  IN IF texts # {} THEN CHOOSE c \in texts : TRUE
     ELSE IF ints # {} THEN I(MaxOf(ints))
     ELSE NULL

\* (max_food_id or 0) + 1 raises TypeError on a non-empty str
new_food_id_raises(max_food_id) == max_food_id.t = "text" /\ max_food_id.s # <<>>

new_food_id_or_1(max_food_id) ==
  (IF max_food_id.t = "int" THEN max_food_id.n ELSE 1) + 1

new_food_id(max_food_id) ==
  (IF max_food_id.t = "int" THEN max_food_id.n ELSE 0) + 1

claims_count_by_receiver(db, selected_food_id) ==
  Cardinality({i \in 1..Len(db.claims) : SqlEq(db.claims[i].Receiver_ID, selected_food_id)})

\* SELECT COUNT(*) FROM claims WHERE Food_ID = ?
claims_count(db, selected_food_id) ==
  Cardinality({i \in 1..Len(db.claims) : SqlEq(db.claims[i].Food_ID, selected_food_id)})

\* if claims_count > 0: the delete is refused
delete_refused_gt1(count) == count > 1

delete_refused(count) == count > 0

\* DELETE FROM food_listings WHERE Food_ID = ?
delete_rows(rows, selected_food_id) ==
  SelectSeq(rows, LAMBDA r : ~SqlEq(r.Food_ID, selected_food_id))

update_rows_no_where(rows, selected_food_id, u) ==
  [i \in 1..Len(rows) |->
     [rows[i] EXCEPT !.Food_Name = u.food_name,
                     !.Quantity = I(u.quantity),
                     !.Expiry_Date = T(str_date(u.expiry_date)),
                     !.Food_Type = u.food_type,
                     !.Meal_Type = u.meal_type]]

\* UPDATE food_listings SET ... WHERE Food_ID = ?
update_rows(rows, selected_food_id, u) ==
  [i \in 1..Len(rows) |->
     IF SqlEq(rows[i].Food_ID, selected_food_id)
     THEN [rows[i] EXCEPT !.Food_Name = u.food_name,
                          !.Quantity = I(u.quantity),
                          !.Expiry_Date = T(str_date(u.expiry_date)),
                          !.Food_Type = u.food_type,
                          !.Meal_Type = u.meal_type]
     ELSE rows[i]]

\* INSERT INTO food_listings (...) VALUES (...)
insert_row(rows, id, u, prov) ==
  Append(rows, FoodRow(I(id), u.food_name, I(u.quantity),
                       T(str_date(u.expiry_date)), I(prov.Provider_ID),
                       prov.Type, prov.City, u.food_type, u.meal_type))

(***************************************************************************)
(* Form inputs.                                                            *)
(***************************************************************************)
Payload(name, qty, exp, ftype, mtype) ==
  [food_name |-> name, quantity |-> qty, expiry_date |-> exp,
   food_type |-> ftype, meal_type |-> mtype]

AddInputs ==
  {Payload("Dal", 6, Date(2025, 1, 12), "Vegan", "Dinner")}

UpdateInputs ==
  {Payload("Naan", 2, Date(2025, 1, 9), "Non-Vegetarian", "Snacks")}

\* the option text "<Food_ID> - <Food_Name> (<Quantity> units)" up to ' - '
option_id_text(row) == IntToText(row.Food_ID)

\* int(selected_food_option.split(' - ')[0])
int_of_text(s) ==
  IF s[1] = "-" THEN 0 - ParseDigits(Tail(s)) ELSE ParseDigits(s)

\* df_food_listings[df_food_listings['Food_ID'] == selected_food_id].iloc[0]
selected_listing(df, selected_food_id) ==
  df[MinOf({j \in 1..Len(df) : df[j].Food_ID = selected_food_id})]

\* the update form renders: list.index(...) raises ValueError otherwise
form_renders(listing) ==
  /\ listing.Food_Type \in SeqRange(FoodTypes)
  /\ listing.Meal_Type \in SeqRange(MealTypes)

\* df_providers[df_providers['Name'] == selected_provider_name].iloc[0]
selected_provider_info(df, name) ==
  df[MinOf({j \in 1..Len(df) : df[j].Name = name})]

(***************************************************************************)
(* State.                                                                  *)
(***************************************************************************)
VARIABLES
  csv,      \* the four CSV files next to the setup scripts, as to_sql loads them
  store,    \* food_wastage.db as the app's one connection reads it
  cache,    \* the st.cache_data entry of load_data_from_db, with its age
  phase,    \* position of the script run: "idle" or "loaded"
  view,     \* the dataframes of the current script run (line 50)
  queried,  \* whether the last load_data_from_db call ran its queries
  result,   \* what the last script run reported to the user
  inserts,  \* listings added since the database was set up
  today,    \* datetime.date.today()
  shown,    \* the last rendering of report 21: its inputs and its rows
  pending,  \* a load_data_from_db call of a second session, under way
  faults    \* where the storage calls of this deployment can fail

vars ==
  <<csv, store, cache, phase, view, queried, result, inserts, today, shown,
    pending, faults>>

\* took: clock ticks the caching load ran for; stale: clock ticks since the
\* queries that produced snap ran
NoCache == [valid |-> FALSE, snap |-> NoData, age |-> 0, took |-> 0, stale |-> 0]

NoShown == [valid |-> FALSE, snap |-> NoData, days |-> 0, rows |-> << >>]

NoPending == [active |-> FALSE, snap |-> NoData, took |-> 0]

Result(op, outcome, id, count) ==
  [op |-> op, outcome |-> outcome, food_id |-> id, count |-> count]

StartDate == Date(2025, 1, 30)

\* where a write of the gateway can raise: at cursor.execute, before the
\* statement has had an effect, or at conn.commit(), when the statement has
\* run in the connection's open transaction
Failures == {"none", "execute", "commit"}

InitWith(seeds, failures) ==
  /\ csv \in seeds
  /\ faults = failures
  /\ store = csv
  /\ cache = NoCache
  /\ phase = "idle"
  /\ view = NoData
  /\ queried = FALSE
  /\ result = Result("none", "ok", 0, 0)
  /\ inserts = 0
  /\ today = StartDate
  /\ shown = NoShown
  /\ pending = NoPending

\* a deployment whose commits go through
Init == InitWith(Seeds, {"none", "execute"})

never_cached == FALSE

\* the cached value is still within its ttl
CacheHit == cache.valid /\ cache.age < TTL

not_cleared == cache

\* load_data_from_db.clear()
clear == NoCache

\* line 50: df_... = load_data_from_db().  On a miss the function runs under
\* the cache's compute lock, so it waits for a computation that is under way.
Load ==
  /\ phase = "idle"
  /\ IF CacheHit
     THEN /\ view' = cache.snap
          /\ queried' = FALSE
          /\ phase' = "loaded"
          /\ result' = Result("load", "ok", 0, 0)
          /\ UNCHANGED cache
     ELSE /\ ~pending.active
          /\ IF load_raises(store)
             THEN /\ view' = NoData
                  /\ queried' = TRUE
                  /\ phase' = "idle"
                  /\ result' = Result("load", "crash", 0, 0)
                  /\ UNCHANGED cache
             ELSE /\ view' = load_data_from_db(store)
                  /\ queried' = TRUE
                  /\ phase' = "loaded"
                  /\ result' = Result("load", "ok", 0, 0)
                  /\ cache' = [valid |-> TRUE, snap |-> load_data_from_db(store),
                               age |-> 0, took |-> 0, stale |-> 0]
  /\ UNCHANGED <<csv, store, inserts, today, shown, pending, faults>>

\* the script run ends (st.rerun, or an exception): its dataframes are gone
EndRun(r) ==
  /\ phase' = "idle"
  /\ view' = NoData
  /\ result' = r
  /\ UNCHANGED <<csv, queried, today, shown, pending, faults>>

\* a page has been rendered from the dataframes snap and stays on screen
Rendered(r, snap) ==
  /\ phase' = "idle"
  /\ view' = snap
  /\ result' = r
  /\ UNCHANGED <<csv, queried, today, shown, pending, faults>>

after_key_insights_dropna_inplace(snap) ==
  [snap EXCEPT !.df_claims = df_claims_cleaned(snap)]

\* the dataframes after the Key Insights code has run: every report works on
\* a frame of its own (merge, groupby, value_counts, boolean indexing, the
\* .copy() of report 18) and assigns to none of the four loaded frames
after_key_insights(snap) == snap

\* the dataframes after the Filter Food Listings code has run: the filters
\* are applied to df_food_listings.copy()
after_filter_listings(snap) == snap

\* the Key Insights page
KeyInsights ==
  /\ phase = "loaded"
  /\ Rendered(Result("insights", IF report6_raises(view) THEN "crash" ELSE "ok", 0, 0),
              IF report6_raises(view) THEN view ELSE after_key_insights(view))
  /\ UNCHANGED <<store, cache, inserts>>

\* the Filter Food Listings page
FilterListings ==
  /\ phase = "loaded"
  /\ Rendered(Result("filter", "ok", 0, 0), after_filter_listings(view))
  /\ UNCHANGED <<store, cache, inserts>>

\* the Add New Food Listing page with the form submitted
AddListing ==
  /\ phase = "loaded"
  /\ inserts < MaxInserts
  /\ LET max_food_id == select_max_food_id(store)
         id == new_food_id(max_food_id)
         provider_names == {view.df_providers[j].Name : j \in 1..Len(view.df_providers)}
     IN IF new_food_id_raises(max_food_id) \/ provider_names = {}
        THEN /\ EndRun(Result("insert", "crash", 0, 0))
             /\ UNCHANGED <<store, cache, inserts>>
        ELSE \E u \in AddInputs, name \in provider_names, fails \in faults :
               IF fails = "execute"
               THEN /\ EndRun(Result("insert", "error", id, 0))
                    /\ UNCHANGED <<store, cache, inserts>>
               ELSE /\ store' = [store EXCEPT !.food_listings =
                          insert_row(@, id, u, selected_provider_info(view.df_providers, name))]
                    /\ inserts' = inserts + 1
                    /\ IF fails = "commit"
                       THEN /\ EndRun(Result("insert", "error", id, 0))
                            /\ UNCHANGED cache
                       ELSE /\ cache' = clear
                            /\ EndRun(Result("insert", "ok", id, 0))

\* the Manage Food Listings page: Update Listing submitted for option k
UpdateListing ==
  /\ phase = "loaded"
  /\ UNCHANGED inserts
  /\ \E k \in 1..Len(view.df_food_listings) :
       LET selected_food_id == int_of_text(option_id_text(view.df_food_listings[k]))
           listing == selected_listing(view.df_food_listings, selected_food_id)
       IN IF ~form_renders(listing)
          THEN /\ EndRun(Result("update", "crash", selected_food_id, 0))
               /\ UNCHANGED <<store, cache>>
          ELSE \E u \in UpdateInputs, fails \in faults :
                 IF fails = "execute"
                 THEN /\ EndRun(Result("update", "error", selected_food_id, 0))
                      /\ UNCHANGED <<store, cache>>
                 ELSE /\ store' = [store EXCEPT !.food_listings =
                            update_rows(@, selected_food_id, u)]
                      /\ IF fails = "commit"
                         THEN /\ EndRun(Result("update", "error", selected_food_id, 0))
                              /\ UNCHANGED cache
                         ELSE /\ cache' = clear
                              /\ EndRun(Result("update", "ok", selected_food_id, 0))

\* the Manage Food Listings page: Delete Listing pressed for option k
DeleteListing ==
  /\ phase = "loaded"
  /\ UNCHANGED inserts
  /\ \E k \in 1..Len(view.df_food_listings) :
       LET selected_food_id == int_of_text(option_id_text(view.df_food_listings[k]))
           listing == selected_listing(view.df_food_listings, selected_food_id)
           count == claims_count(store, selected_food_id)
       IN IF ~form_renders(listing)
          THEN /\ EndRun(Result("delete", "crash", selected_food_id, 0))
               /\ UNCHANGED <<store, cache>>
          ELSE \E fails \in faults :
                 IF fails = "execute"
                 THEN /\ EndRun(Result("delete", "error", selected_food_id, 0))
                      /\ UNCHANGED <<store, cache>>
                 ELSE IF delete_refused(count)
                 THEN /\ fails = "none"
                      /\ EndRun(Result("delete", "rejected", selected_food_id, count))
                      /\ UNCHANGED <<store, cache>>
                 ELSE /\ store' = [store EXCEPT !.food_listings =
                            delete_rows(@, selected_food_id)]
                      /\ IF fails = "commit"
                         THEN /\ EndRun(Result("delete", "error", selected_food_id, 0))
                              /\ UNCHANGED cache
                         ELSE /\ cache' = clear
                              /\ EndRun(Result("delete", "ok", selected_food_id, 0))

\* time passes: the cached value ages until its ttl is reached, and a load
\* under way takes longer
Tick ==
  /\ \/ cache.valid /\ cache.age < TTL
     \/ pending.active /\ pending.took < MaxLoadTicks
  /\ cache' = IF cache.valid /\ cache.age < TTL
              THEN [cache EXCEPT !.age = @ + 1, !.stale = @ + 1]
              ELSE cache
  /\ pending' = IF pending.active /\ pending.took < MaxLoadTicks
                THEN [pending EXCEPT !.took = @ + 1]
                ELSE pending
  /\ UNCHANGED <<csv, store, phase, view, queried, result, inserts, today, shown,
               faults>>

\* a setup script is run again: every table is replaced by its CSV file
SetupDatabase ==
  /\ store # csv
  /\ store' = csv
  /\ inserts' = 0
  /\ UNCHANGED <<csv, cache, phase, view, queried, result, today, shown, pending,
               faults>>

Next ==
  \/ Load
  \/ KeyInsights
  \/ FilterListings
  \/ AddListing
  \/ UpdateListing
  \/ DeleteListing
  \/ Tick
  \/ SetupDatabase

Spec == Init /\ [][Next]_vars

\* the values typed into the number input of report 21
DaysInputs == {1, 7}

\* the Key Insights page, with what report 21 shows kept for comparison
ShowExpiring ==
  /\ phase = "loaded"
  /\ ~report6_raises(view)
  /\ \E days_input \in DaysInputs :
       shown' = [valid |-> TRUE, snap |-> view, days |-> days_input,
                 rows |-> expiring_custom_df(view, days_input, today)]
  /\ phase' = "idle"
  /\ view' = after_key_insights(view)
  /\ result' = Result("insights", "ok", 0, 0)
  /\ UNCHANGED <<csv, store, cache, queried, inserts, today, pending, faults>>

\* a day passes: the date changes and a cached value is past its ttl
NextDay ==
  /\ Ordinal(today) - Ordinal(StartDate) < MaxDays
  /\ today' = next_day(today)
  /\ cache' = IF cache.valid
              THEN [cache EXCEPT !.age = TTL, !.stale = cache.took + TTL]
              ELSE cache
  /\ UNCHANGED <<csv, store, phase, view, queried, result, inserts, shown,
                 pending, faults>>

\* the reports over the report data sets, on several days
InitReports == InitWith(ReportSeeds, {"none", "execute"})

NextReports ==
  \/ Load
  \/ ShowExpiring
  \/ NextDay

SpecReports == InitReports /\ [][NextReports]_vars

\* line 50 in the script run of a second session, on a cache miss: the
\* function body starts and runs its four queries
BeginLoad ==
  /\ ~pending.active
  /\ ~CacheHit
  /\ ~load_raises(store)
  /\ pending' = [active |-> TRUE, snap |-> load_data_from_db(store), took |-> 0]
  /\ UNCHANGED <<csv, store, cache, phase, view, queried, result, inserts, today,
                 shown, faults>>

EndLoad_as_if_read_now ==
  /\ pending.active
  /\ cache' = [valid |-> TRUE, snap |-> pending.snap, age |-> 0,
               took |-> pending.took, stale |-> 0]
  /\ pending' = NoPending
  /\ UNCHANGED <<csv, store, phase, view, queried, result, inserts, today, shown,
                 faults>>
\* the function body of the second session returns: st.cache_data stores the
\* value, which starts its ttl, and hands it to the caller
EndLoad ==
  /\ pending.active
  /\ cache' = [valid |-> TRUE, snap |-> pending.snap, age |-> 0,
               took |-> pending.took, stale |-> pending.took]
  /\ pending' = NoPending
  /\ UNCHANGED <<csv, store, phase, view, queried, result, inserts, today, shown,
                 faults>>

\* two sessions: one goes through the pages, the other loads
ConcSeeds == {SeedFresh}

InitConc == InitWith(ConcSeeds, {"none", "execute"})

NextConc ==
  \/ Next
  \/ BeginLoad
  \/ EndLoad

SpecConc == InitConc /\ [][NextConc]_vars

\* a deployment in which a commit can fail, as it does with "database is
\* locked" while another connection reads the file
FailSeeds == {SeedFresh}

InitFail == InitWith(FailSeeds, Failures)

SpecFail == InitFail /\ [][Next]_vars

(***************************************************************************)
(* Properties of the gateway and the loader.                               *)
(***************************************************************************)
GatewayWrite ==
  (AddListing \/ UpdateListing \/ DeleteListing) /\ result'.outcome = "ok"

Dependents(db, id) ==
  {i \in 1..Len(db.claims) : SqlEq(db.claims[i].Food_ID, id)}

OtherTablesUnchanged ==
  /\ store'.providers = store.providers
  /\ store'.receivers = store.receivers
  /\ store'.claims = store.claims

\* C1: a delete whose statements execute is refused exactly when the claims
\* table holds a row with the selected Food_ID.  Refused: food_listings is
\* unchanged, the cache is kept and the caller gets the number of dependent
\* claims.  Otherwise: the rows with that Food_ID are gone, the rest is kept
\* and the cache is invalidated.
C1_DeleteRefusedIffClaimed ==
  [][(DeleteListing /\ result'.outcome \in {"ok", "rejected"}) =>
       LET id == result'.food_id
           dep == Dependents(store, id)
       IN IF dep # {}
          THEN /\ result'.outcome = "rejected"
               /\ result'.count = Cardinality(dep)
               /\ store' = store
               /\ cache' = cache
          ELSE /\ result'.outcome = "ok"
               /\ store'.food_listings =
                    SelectSeq(store.food_listings, LAMBDA r : ~SqlEq(r.Food_ID, id))
               /\ OtherTablesUnchanged
               /\ ~cache'.valid]_vars

\* a delete was refused because of two dependent claims
C1_Witness ==
  /\ result.op = "delete" /\ result.outcome = "rejected" /\ result.count = 2
  /\ Cardinality(Dependents(store, result.food_id)) = 2

\* C2: a successful insert, update or delete leaves no cached snapshot, only
\* a load caches one, and a load that finds none queries the store and
\* returns the food listings the store holds then (as coerced by the loader).
C2_NextLoadReflectsWrite ==
  [][/\ GatewayWrite => ~cache'.valid
     /\ (~cache.valid /\ cache'.valid) => Load
     /\ (Load /\ ~cache.valid /\ result'.outcome = "ok") =>
          /\ queried'
          /\ Len(view'.df_food_listings) = Len(store.food_listings)
          /\ \A i \in 1..Len(store.food_listings) :
               view'.df_food_listings[i] = load_food(store.food_listings[i])]_vars

\* a load after an insert returned the added listing
C2_Witness ==
  /\ phase = "loaded" /\ queried /\ inserts > 0
  /\ Len(view.df_food_listings) = Len(csv.food_listings) + 1
  /\ view.df_food_listings[Len(view.df_food_listings)].Food_Name = "Dal"

\* C3: a load that finds a cached snapshot younger than the ttl returns that
\* snapshot without querying the store; the cached snapshot is the one the
\* caching load returned, and only a load or a gateway write replaces it.
C3_CachedLoadIsIdentical ==
  [][/\ (Load /\ cache.valid /\ cache.age < TTL) =>
          /\ view' = cache.snap
          /\ ~queried'
          /\ cache' = cache
     /\ (Load /\ queried' /\ phase' = "loaded") =>
          /\ cache'.valid /\ cache'.age = 0
          /\ cache'.snap = view'
     /\ (cache'.snap # cache.snap) => (Load \/ GatewayWrite)]_vars

\* a cached load returned a snapshot that differs from what the store holds
C3_Witness ==
  /\ phase = "loaded" /\ ~queried /\ cache.valid /\ cache.age = 1
  /\ view = cache.snap
  /\ view # load_data_from_db(store)

IntIds(rows) == {c.n : c \in {r.Food_ID : r \in {x \in SeqRange(rows) : x.Food_ID.t = "int"}}}

\* C4: an insert appends one listing whose Food_ID is one plus the largest
\* Food_ID of the store's food_listings table at that moment, or 1 when the
\* table has no rows.
C4_InsertAssignsMaxPlusOne ==
  [][(AddListing /\ result'.outcome = "ok") =>
       LET ids == IntIds(store.food_listings)
           expected == IF ids = {} THEN 1 ELSE MaxOf(ids) + 1
           n == Len(store.food_listings)
       IN /\ Len(store'.food_listings) = n + 1
          /\ SubSeq(store'.food_listings, 1, n) = store.food_listings
          /\ store'.food_listings[n + 1].Food_ID = I(expected)
          /\ result'.food_id = expected]_vars

\* the table's largest Food_ID was 7 and the added listing got 8
C4_Witness ==
  /\ result.op = "insert" /\ result.outcome = "ok" /\ result.food_id = 8
  /\ \E i \in 1..Len(store.food_listings) : store.food_listings[i].Food_ID = I(7)
  /\ store.food_listings[Len(store.food_listings)].Food_ID = I(8)

SameKey(a, b) ==
  \/ a.t = "int" /\ SqlEq(b, a.n)
  \/ b.t = "int" /\ SqlEq(a, b.n)
  \/ a.t = "text" /\ a = b

ReferentialIntegrity(db) ==
  \A c \in SeqRange(db.claims) :
    \E f \in SeqRange(db.food_listings) : SameKey(c.Food_ID, f.Food_ID)

\* C5: an insert, update or delete on a store in which every claim's Food_ID
\* is the Food_ID of a listing leaves a store with the same property.
C5_GatewayKeepsReferences ==
  [][(ReferentialIntegrity(store)
        /\ (AddListing \/ UpdateListing \/ DeleteListing))
       => ReferentialIntegrity(store')]_vars

\* a listing was deleted from a store that has claims, all still referencing
C5_Witness ==
  /\ result.op = "delete" /\ result.outcome = "ok"
  /\ store.claims # <<>>
  /\ Len(store.food_listings) < Len(csv.food_listings)
  /\ ReferentialIntegrity(csv)
  /\ ReferentialIntegrity(store)

\* C6: an update keeps the number and order of the listings, keeps Food_ID,
\* Provider_ID, Provider_Type and Location of every listing, changes nothing
\* of a listing with another Food_ID, and keeps the other three tables.
C6_UpdateFrame ==
  [][UpdateListing =>
       LET id == result'.food_id
           old == store.food_listings
           new == store'.food_listings
       IN /\ Len(new) = Len(old)
          /\ \A i \in 1..Len(old) :
               /\ new[i].Food_ID = old[i].Food_ID
               /\ new[i].Provider_ID = old[i].Provider_ID
               /\ new[i].Provider_Type = old[i].Provider_Type
               /\ new[i].Location = old[i].Location
               /\ ~SqlEq(old[i].Food_ID, id) => new[i] = old[i]
          /\ OtherTablesUnchanged]_vars

\* an update rewrote one of two listings
C6_Witness ==
  /\ result.op = "update" /\ result.outcome = "ok"
  /\ Len(store.food_listings) >= 2
  /\ \E i, j \in 1..Len(store.food_listings) :
       /\ SqlEq(store.food_listings[i].Food_ID, result.food_id)
       /\ store.food_listings[i].Food_Name = "Naan"
       /\ ~SqlEq(store.food_listings[j].Food_ID, result.food_id)
       /\ store.food_listings[j].Food_Name # "Naan"

\* an update of a Food_ID the store no longer holds
C6_StaleWitness ==
  /\ result.op = "update" /\ result.outcome = "ok" /\ result.food_id > 0
  /\ \A r \in SeqRange(store.food_listings) : ~SqlEq(r.Food_ID, result.food_id)

(***************************************************************************)
(* Properties of the reports, on the dataframes of a script run.           *)
(***************************************************************************)
ListingsOf(snap, p) ==
  {f \in SeqRange(snap.df_food_listings) : f.Provider_ID = p.Provider_ID}

HasClaim(snap, f) ==
  \E c \in SeqRange(snap.df_claims) : c.Food_ID = f.Food_ID

\* C7: report 15 returns no provider that has a claim against one of its
\* listings.
C7_ReportedProvidersHaveNoClaims ==
  phase = "loaded" =>
    \A p \in SeqRange(unique_providers_with_unclaimed(view)) :
      \A f \in ListingsOf(view, p) : ~HasClaim(view, f)

Report2Total(snap) ==
  SumOver(top_provider_types(snap), DOMAIN top_provider_types(snap))

Report13Total(snap) ==
  SumSeq([k \in 1..Len(provider_donated_qty(snap)) |->
            provider_donated_qty(snap)[k].Quantity])

ProvidersMatching(snap, f) ==
  {j \in 1..Len(snap.df_providers) : snap.df_providers[j].Provider_ID = f.Provider_ID}

OneProviderEach(snap) ==
  \A f \in SeqRange(snap.df_food_listings) :
    Cardinality(ProvidersMatching(snap, f)) = 1

OneTypedProviderEach(snap) ==
  /\ OneProviderEach(snap)
  /\ \A f \in SeqRange(snap.df_food_listings) :
       \A j \in ProvidersMatching(snap, f) : snap.df_providers[j].Type # None

\* C8 as claimed: the group totals of report 2 and of report 13 add up to
\* the total quantity of report 5, whatever the providers table holds.
C8_GroupSumsConserveQuantity ==
  phase = "loaded" =>
    /\ Report2Total(view) = total_quantity_available(view)
    /\ Report13Total(view) = total_quantity_available(view)

\* C8 amended: the group totals of report 13 add up to the total quantity
\* when every listing's Provider_ID is the Provider_ID of exactly one
\* provider row, and those of report 2 when that row also has a Type.
C8_GroupSumsConserveWhenMatched ==
  phase = "loaded" =>
    /\ OneProviderEach(view) =>
         Report13Total(view) = total_quantity_available(view)
    /\ OneTypedProviderEach(view) =>
         Report2Total(view) = total_quantity_available(view)

\* listings of two provider types, each with exactly one provider row
C8_Witness ==
  /\ phase = "loaded"
  /\ OneTypedProviderEach(view)
  /\ Cardinality(DOMAIN top_provider_types(view)) = 2
  /\ Len(provider_donated_qty(view)) = 2
  /\ total_quantity_available(view) > 0

WellFormedInt(cell) ==
  \/ cell.t = "int"
  \/ cell.t = "text" /\ AllDigits(cell.s)
  \/ cell.t = "text" /\ Len(cell.s) > 1 /\ cell.s[1] = "-" /\ AllDigits(Tail(cell.s))

IntOrZero(cell) ==
  IF ~WellFormedInt(cell) THEN 0
  ELSE IF cell.t = "int" THEN cell.n
  ELSE int_of_text(cell.s)

WellFormedDate(cell) ==
  cell.t = "text" /\ DatePartOk(cell.s) /\ (Len(cell.s) = 10 \/ TimePartOk(cell.s))

DateKept(cell, dt) ==
  IF WellFormedDate(cell)
  THEN ~dt.nat /\ (IF Len(cell.s) = 10 THEN str_date(dt) ELSE strftime_ts(dt)) = cell.s
  ELSE dt.nat

\* C9: a load that queries the store never fails; it keeps every row, turns
\* every Food_ID, Provider_ID, Quantity and Receiver_ID cell that is not a
\* number into 0 and every unparseable Expiry_Date or Timestamp into the
\* null marker, and keeps the well-formed values.
C9_LoadToleratesMalformedCells ==
  [][(Load /\ queried') =>
       /\ result'.outcome = "ok"
       /\ Len(view'.df_food_listings) = Len(store.food_listings)
       /\ Len(view'.df_providers) = Len(store.providers)
       /\ Len(view'.df_receivers) = Len(store.receivers)
       /\ Len(view'.df_claims) = Len(store.claims)
       /\ \A i \in 1..Len(store.food_listings) :
            LET r == store.food_listings[i]
                v == view'.df_food_listings[i]
            IN /\ v.Food_ID = IntOrZero(r.Food_ID)
               /\ v.Provider_ID = IntOrZero(r.Provider_ID)
               /\ v.Quantity = IntOrZero(r.Quantity)
               /\ DateKept(r.Expiry_Date, v.Expiry_Date)
       /\ \A i \in 1..Len(store.providers) :
            view'.df_providers[i].Provider_ID = IntOrZero(store.providers[i].Provider_ID)
       /\ \A i \in 1..Len(store.receivers) :
            view'.df_receivers[i].Receiver_ID = IntOrZero(store.receivers[i].Receiver_ID)
       /\ \A i \in 1..Len(store.claims) :
            LET r == store.claims[i]
                v == view'.df_claims[i]
            IN /\ v.Food_ID = IntOrZero(r.Food_ID)
               /\ v.Receiver_ID = IntOrZero(r.Receiver_ID)
               /\ DateKept(r.Timestamp, v.Timestamp)]_vars

\* weekday of a date by Sakamoto's method, 1 = Monday .. 7 = Sunday
MonthKey == <<0, 3, 2, 5, 0, 3, 5, 1, 4, 6, 2, 4>>

WeekdayNumber(dt) ==
  LET y == IF dt.m < 3 THEN dt.y - 1 ELSE dt.y
      w == (y + (y \div 4) - (y \div 100) + (y \div 400) + MonthKey[dt.m] + dt.d) % 7
  IN IF w = 0 THEN 7 ELSE w

ClaimsOnWeekday(snap, k) ==
  {i \in 1..Len(snap.df_claims) :
     /\ ~snap.df_claims[i].Timestamp.nat
     /\ WeekdayNumber(snap.df_claims[i].Timestamp) = k}

\* C10: report 18 has the seven buckets Monday .. Sunday in that order, each
\* holding the number of claims with a Timestamp on that weekday (0 when
\* there is none), and the buckets add up to the number of claims that have
\* a Timestamp.
C10_SevenWeekdayBuckets ==
  phase = "loaded" =>
    LET r == claims_by_day(view)
    IN /\ Len(r) = 7
       /\ \A k \in 1..7 :
            /\ r[k].day = DayNames[k]
            /\ r[k].count = Cardinality(ClaimsOnWeekday(view, k))
       /\ SumSeq([k \in 1..7 |-> r[k].count])
            = Cardinality({i \in 1..Len(view.df_claims) : ~view.df_claims[i].Timestamp.nat})

\* two claims, both on a Wednesday: Wednesday holds 2 and the other days 0
C10_Witness ==
  /\ phase = "loaded"
  /\ Len(view.df_claims) = 2
  /\ \A i \in 1..2 : ~view.df_claims[i].Timestamp.nat
  /\ view.df_claims[1].Timestamp.d # view.df_claims[2].Timestamp.d
  /\ claims_by_day(view)[3] = [day |-> "Wednesday", count |-> 2]
  /\ \A k \in (1..7) \ {3} : claims_by_day(view)[k].count = 0

ClaimsWithStatus(snap, v) ==
  {i \in 1..Len(snap.df_claims) : snap.df_claims[i].Status = v}

StatusValues(snap) ==
  {snap.df_claims[i].Status : i \in 1..Len(snap.df_claims)} \ {None}

\* C11: report 10 gives each distinct Status the value
\* 100 * (claims with that Status) / (claims with a Status); when some claim
\* has a Status the values add up to 100, and for an empty claims table the
\* result is empty and no division takes place.
C11_StatusPercentages ==
  phase = "loaded" =>
    LET r == claim_status_percentage(view)
        with_status == UNION {ClaimsWithStatus(view, v) : v \in StatusValues(view)}
    IN /\ DOMAIN r = StatusValues(view)
       /\ \A v \in DOMAIN r :
            /\ r[v].num = 100 * Cardinality(ClaimsWithStatus(view, v))
            /\ r[v].den = Cardinality(with_status)
            /\ r[v].den > 0
       /\ StatusValues(view) # {} =>
            SumOver([v \in DOMAIN r |-> r[v].num], DOMAIN r)
              = 100 * Cardinality(with_status)
       /\ Len(view.df_claims) = 0 => r = << >>

\* three claims, one without a Status: Pending and Completed hold 50 each
C11_Witness ==
  /\ phase = "loaded"
  /\ Len(view.df_claims) = 3
  /\ \E i \in 1..3 : view.df_claims[i].Status = None
  /\ claim_status_percentage(view)
       = [v \in {"Pending", "Completed"} |-> Ratio(100, 2)]

\* no claims at all: the report is empty
C11_EmptyWitness ==
  /\ phase = "loaded"
  /\ Len(view.df_claims) = 0
  /\ DOMAIN claim_status_percentage(view) = {}

\* some Completed claim joins to a listing and that listing to a provider
CompletedClaimJoins(snap) ==
  \E c \in SeqRange(snap.df_claims), f \in SeqRange(snap.df_food_listings),
     p \in SeqRange(snap.df_providers) :
    c.Status = "Completed" /\ c.Food_ID = f.Food_ID /\ f.Provider_ID = p.Provider_ID

\* C12: a report that needs a top row ends in the "no data" outcome when its
\* input is empty: report 6 on an empty food-listings table, report 9 when no
\* Completed claim joins to a listing and a provider.
C12_TopRowReportsHandleNoData ==
  phase = "loaded" =>
    /\ Len(view.df_food_listings) = 0 => report6_outcome(view) = "no data"
    /\ ~CompletedClaimJoins(view) => report9_outcome(view) = "no data"

\* the half of C12 about report 9, and the top row it shows otherwise
C12_Report9HandlesNoData ==
  phase = "loaded" =>
    /\ ~CompletedClaimJoins(view) <=> report9_outcome(view) = "no data"
    /\ CompletedClaimJoins(view) => top_provider_successful_claims(view) >= 1

\* the Key Insights page dies at report 6 on an empty food-listings table
C12_Report6Crash ==
  /\ result.op = "insights"
  /\ result.outcome = "crash"
  /\ Len(store.food_listings) = 0

\* C13: when the storage call of an insert, update or delete fails, the
\* failure is reported as an error, the store's tables are left as they were
\* before the operation and the loader cache is not invalidated.
C13_FailedWriteLeavesStore ==
  [][ (AddListing \/ UpdateListing \/ DeleteListing) /\ result'.outcome = "error"
        => store' = store /\ cache' = cache ]_vars

\* the half of C13 that holds: a failed write never invalidates the cache,
\* and a failure at execute leaves the tables alone
C13_FailedWriteKeepsCache ==
  [][ (AddListing \/ UpdateListing \/ DeleteListing) /\ result'.outcome = "error"
        => cache' = cache ]_vars

\* an insert was reported as failed and its row is in the table
C13_FailedInsertVisible ==
  /\ result.op = "insert"
  /\ result.outcome = "error"
  /\ \E i \in 1..Len(store.food_listings) :
       store.food_listings[i].Food_ID = I(result.food_id)
  /\ \A i \in 1..Len(csv.food_listings) :
       csv.food_listings[i].Food_ID # I(result.food_id)

FoodNameValues(snap) ==
  {snap.df_food_listings[i].Food_Name : i \in 1..Len(snap.df_food_listings)}
    \ {None}

TotalOfName(snap, n) ==
  SumSeq([i \in 1..Len(snap.df_food_listings) |->
            IF snap.df_food_listings[i].Food_Name = n
            THEN snap.df_food_listings[i].Quantity ELSE 0])

NameBefore(a, b) ==
  \E i, j \in 1..Len(FoodNames) : i < j /\ FoodNames[i] = a /\ FoodNames[j] = b

\* C14: report 17 returns min(5, number of distinct Food_Name values) rows,
\* one per name with the total Quantity of that name, in non-increasing order
\* of total; no omitted name has a total greater than a returned one; names
\* with equal totals are adjacent, in the order of the names.
C14_TopFiveByTotalQuantity ==
  phase = "loaded" =>
    LET r == top_5_food_items_qty(view)
        names == FoodNameValues(view)
        returned == {r[k].Food_Name : k \in 1..Len(r)}
    IN /\ Len(r) = (IF Cardinality(names) < 5 THEN Cardinality(names) ELSE 5)
       /\ returned \subseteq names
       /\ Cardinality(returned) = Len(r)
       /\ \A k \in 1..Len(r) : r[k].Quantity = TotalOfName(view, r[k].Food_Name)
       /\ \A k \in 1..(Len(r) - 1) : r[k].Quantity >= r[k + 1].Quantity
       /\ \A n \in names \ returned, k \in 1..Len(r) :
            TotalOfName(view, n) <= r[k].Quantity
       /\ \A j, k \in 1..Len(r) :
            j < k /\ r[j].Quantity = r[k].Quantity
              => NameBefore(r[j].Food_Name, r[k].Food_Name)

\* five names with the totals 10, 10, 5, 3, 1: all five are returned
C14_Witness ==
  /\ phase = "loaded"
  /\ Cardinality(FoodNameValues(view)) = 5
  /\ top_5_food_items_qty(view)
       = <<[Food_Name |-> "Naan", Quantity |-> 10],
           [Food_Name |-> "Rice", Quantity |-> 10],
           [Food_Name |-> "Dal", Quantity |-> 5],
           [Food_Name |-> "Curry", Quantity |-> 3],
           [Food_Name |-> "Bread", Quantity |-> 1]>>

\* six names, the sixth is left out and ties with a returned one
C14_SixNamesWitness ==
  /\ phase = "loaded"
  /\ Cardinality(FoodNameValues(view)) = 6
  /\ Len(top_5_food_items_qty(view)) = 5
  /\ top_5_food_items_qty(view)[5].Quantity = TotalOfName(view, "Rice")
  /\ \A k \in 1..5 : top_5_food_items_qty(view)[k].Food_Name # "Rice"

\* C15: report 21 is determined by the snapshot and the number of days given
\* to it: two renderings with the same snapshot and the same number of days
\* show the same rows.
C15_ExpiringDeterminedByArguments ==
  [][ ShowExpiring /\ shown.valid /\ shown'.snap = shown.snap
        /\ shown'.days = shown.days
        => shown'.rows = shown.rows ]_vars

\* what report 21 does show: exactly the listings that expire between the
\* wall-clock date of the rendering and that date plus the number of days,
\* both ends included, in non-decreasing order of Expiry_Date
C15_ExpiringWindowOfToday ==
  [][ ShowExpiring =>
        LET rows == shown'.rows
            InWindow(r) ==
              /\ ~r.Expiry_Date.nat
              /\ Ordinal(today) <= Ordinal(r.Expiry_Date)
              /\ Ordinal(r.Expiry_Date) <= Ordinal(today) + shown'.days
        IN /\ SeqRange(rows) = {r \in SeqRange(view.df_food_listings) : InWindow(r)}
           /\ Len(rows) = Cardinality({i \in 1..Len(view.df_food_listings) :
                                         InWindow(view.df_food_listings[i])})
           /\ \A k \in 1..(Len(rows) - 1) :
                Ordinal(rows[k].Expiry_Date) <= Ordinal(rows[k + 1].Expiry_Date) ]_vars

\* the same data and the same number of days, rendered on 30 and on 31
\* January: the listing that expires on the 30th is shown only the first time
C15_SameInputsOtherDay ==
  /\ shown.valid
  /\ shown.days = 1
  /\ today = Date(2025, 1, 31)
  /\ Len(shown.rows) = 2
  /\ expiring_custom_df(shown.snap, shown.days, today) # shown.rows

\* C16: rendering the Key Insights or the Filter Food Listings view leaves
\* the store, the loader cache and the four loaded tables unchanged.
C16_ReportsLeaveStateAlone ==
  [][ KeyInsights \/ FilterListings \/ ShowExpiring
        => /\ store' = store
           /\ csv' = csv
           /\ cache' = cache
           /\ view' = view ]_vars

\* Key Insights has been rendered from data with a claim that has no
\* Timestamp, which report 18 drops from its own copy
C16_Witness ==
  /\ result.op = "insights"
  /\ result.outcome = "ok"
  /\ phase = "idle"
  /\ cache.valid
  /\ view = cache.snap
  /\ Len(df_claims_cleaned(view)) < Len(view.df_claims)
  /\ store = csv

\* the Filter Food Listings view has been rendered from three listings
C16_FilterWitness ==
  /\ result.op = "filter"
  /\ phase = "idle"
  /\ cache.valid
  /\ view = load_data_from_db(store)
  /\ Len(view.df_food_listings) = 3

ClaimedBy(snap, id) ==
  SumSeq([i \in 1..Len(snap.df_claims) |->
            IF snap.df_claims[i].Receiver_ID = id
            THEN SumSeq([j \in 1..Len(snap.df_food_listings) |->
                           IF snap.df_food_listings[j].Food_ID = snap.df_claims[i].Food_ID
                           THEN snap.df_food_listings[j].Quantity ELSE 0])
            ELSE 0])

\* the receivers with a claim that matches a listing
ReceiversWithMatchedClaim(snap) ==
  {k \in 1..Len(snap.df_receivers) :
     \E c \in SeqRange(snap.df_claims), f \in SeqRange(snap.df_food_listings) :
        c.Receiver_ID = snap.df_receivers[k].Receiver_ID /\ c.Food_ID = f.Food_ID}

\* C18: report 4 gives each listed receiver the sum, over that receiver's
\* claims whose Food_ID matches a listing, of the matched listing's Quantity;
\* claims that match no listing and totals of a Receiver_ID that is no
\* receiver are dropped; the result has at most 10 rows, in non-increasing
\* order of total, and no receiver left out has a greater total.
C18_ReceiversByClaimedQuantity ==
  phase = "loaded" =>
    LET r == receiver_total_claimed(view)
        matched == ReceiversWithMatchedClaim(view)
    IN /\ Len(r) = (IF Cardinality(matched) < 10 THEN Cardinality(matched) ELSE 10)
       /\ \A k \in 1..Len(r) :
            /\ \E j \in matched :
                 /\ view.df_receivers[j].Receiver_ID = r[k].Receiver_ID
                 /\ view.df_receivers[j].Name = r[k].Name
                 /\ view.df_receivers[j].Type = r[k].Type
            /\ r[k].Quantity = ClaimedBy(view, r[k].Receiver_ID)
       /\ \A k \in 1..(Len(r) - 1) : r[k].Quantity >= r[k + 1].Quantity
       /\ \A j \in matched :
            \/ \E k \in 1..Len(r) : r[k].Name = view.df_receivers[j].Name
            \/ \A k \in 1..Len(r) :
                 ClaimedBy(view, view.df_receivers[j].Receiver_ID) <= r[k].Quantity

\* eleven receivers with matched claims: ten are listed, the first with the
\* total of its two claims, and neither the claim on Food_ID 9 nor the claim
\* of Receiver_ID 12 shows
C18_Witness ==
  /\ phase = "loaded"
  /\ Len(view.df_receivers) = 11
  /\ Len(view.df_claims) = 14
  /\ Len(receiver_total_claimed(view)) = 10
  /\ receiver_total_claimed(view)[1].Name = "Asha"
  /\ receiver_total_claimed(view)[1].Quantity = 16
  /\ \A k \in 1..10 : receiver_total_claimed(view)[k].Receiver_ID # 12
  /\ ClaimedBy(view, 2) = 8

UniqueFoodIds(rows) ==
  \A i, j \in 1..Len(rows) : i # j => rows[i].Food_ID # rows[j].Food_ID

\* C19: with one writer, an insert, update or delete on a food_listings
\* table with pairwise distinct Food_IDs leaves the Food_IDs pairwise
\* distinct, and an insert keeps every existing row as it is and where it is.
C19_FoodIdsStayUnique ==
  [][ (AddListing \/ UpdateListing \/ DeleteListing)
        /\ UniqueFoodIds(store.food_listings)
        => /\ UniqueFoodIds(store'.food_listings)
           /\ AddListing =>
                /\ Len(store'.food_listings) >= Len(store.food_listings)
                /\ SubSeq(store'.food_listings, 1, Len(store.food_listings))
                     = store.food_listings ]_vars

\* the table set up by the scripts has distinct Food_IDs and so has the store
\* ever after
C19_StoreIdsUnique ==
  UniqueFoodIds(csv.food_listings) => UniqueFoodIds(store.food_listings)

\* a listing was added to the two of the setup data, whose largest Food_ID
\* is not in the last row: three distinct Food_IDs, the two old rows in place
C19_Witness ==
  /\ result.op = "insert"
  /\ result.outcome = "ok"
  /\ Len(csv.food_listings) = 2
  /\ csv.food_listings[1].Food_ID = I(7)
  /\ Len(store.food_listings) = 3
  /\ SubSeq(store.food_listings, 1, 2) = csv.food_listings
  /\ UniqueFoodIds(store.food_listings)

====
